---- MODULE Spec2Model ----
(***************************************************************************)
(* A model of the KaBLE experiment-preparation pipeline of                 *)
(* src/run_experiments.py: dataset scan, subject filter, output path       *)
(* resolution, streamed JSONL write with an optional runner callback, and  *)
(* the run summary.                                                        *)
(*                                                                         *)
(* Python strings are sequences of code points, so that str.lower(), the   *)
(* ordering used by sorted() and "-".join() are computed, not assumed.     *)
(* An optional value is a sequence of length 0 (None) or 1 (the value).    *)
(***************************************************************************)
EXTENDS Integers, Sequences, FiniteSets, TLC

\* ------------------------------------------------------------------ bounds
\* Total number of lines in the dataset directory (over all files).
MaxLines == 2
\* Longest sequence of subject names passed as `subjects`.
MaxSubjects == 2

\* ----------------------------------------------------------------- strings
None == <<>>
Some(v) == <<v>>

\* "BioMedicine", "biomedicine", "Math", as code points.
BioMedicine == <<66, 105, 111, 77, 101, 100, 105, 99, 105, 110, 101>>
biomedicine == <<98, 105, 111, 109, 101, 100, 105, 99, 105, 110, 101>>
Math == <<77, 97, 116, 104>>

\* "a.jsonl" and "b.jsonl": the dataset files matched by glob("*.jsonl").
FileA == <<97, 46, 106, 115, 111, 110, 108>>
FileB == <<98, 46, 106, 115, 111, 110, 108>>
\* "/tmp/out.jsonl": the explicit output path a caller may pass (absolute).
ExplicitOut == <<47, 116, 109, 112, 47, 111, 117, 116, 46, 106, 115, 111, 110, 108>>

DEFAULT_SUBJECTS == <<BioMedicine>>

\* The value streamlit_app.py passes as max_examples in test mode.
_TEST_MODE_LIMIT == 5

\* str.lower() on one code point: 'A'..'Z' map to 'a'..'z'.
lowerChar(c) == IF c >= 65 /\ c <= 90 THEN c + 32 ELSE c

\* str.lower()
lower(s) == [i \in 1..Len(s) |-> lowerChar(s[i])]

\* Python's str ordering: lexicographic by code point, a proper prefix first.
RECURSIVE StrLess(_, _)
StrLess(a, b) ==
    IF b = <<>> THEN FALSE
    ELSE IF a = <<>> THEN TRUE
    ELSE IF a[1] # b[1] THEN a[1] < b[1]
    ELSE StrLess(Tail(a), Tail(b))

\* One step of sorted(): x put into the already sorted sequence s.
RECURSIVE InsertSorted(_, _)
InsertSorted(x, s) ==
    IF s = <<>> THEN <<x>>
    ELSE IF StrLess(s[1], x) THEN <<s[1]>> \o InsertSorted(x, Tail(s))
    ELSE <<x>> \o s

\* sorted(iterable) on a sequence of strings.
RECURSIVE sorted(_)
sorted(s) == IF s = <<>> THEN <<>> ELSE InsertSorted(s[1], sorted(Tail(s)))

\* The elements of a set in some iteration order (a Python set or glob()).
RECURSIVE Iterate(_)
Iterate(S) ==
    IF S = {} THEN <<>>
    ELSE LET x == CHOOSE y \in S : TRUE IN <<x>> \o Iterate(S \ {x})

\* sep.join(parts)
RECURSIVE join(_, _)
join(sep, parts) ==
    IF parts = <<>> THEN <<>>
    ELSE IF Len(parts) = 1 THEN parts[1]
    ELSE parts[1] \o sep \o join(sep, Tail(parts))

Range(s) == {s[i] : i \in 1..Len(s)}

\* ----------------------------------------------------------------- dataset
\* A line of a dataset file: blank (whitespace only), text that is not valid
\* JSON, or a JSON object (with or without a "subject" key).
BlankLine == [kind |-> "blank"]
MalformedLine == [kind |-> "malformed"]
JsonLine(payload) == [kind |-> "json", payload |-> payload]

SubjectNames == {BioMedicine, biomedicine, Math}
Payloads == {[subject |-> s] : s \in SubjectNames} \cup {[prompt |-> "What is DNA?"]}
Lines == {BlankLine, MalformedLine} \cup {JsonLine(p) : p \in Payloads}

DatasetFiles == {FileA, FileB}

RECURSIVE SeqsUpTo(_, _)
SeqsUpTo(S, n) ==
    IF n = 0 THEN {<<>>}
    ELSE LET shorter == SeqsUpTo(S, n - 1)
         IN shorter \cup {Append(s, x) : s \in {t \in shorter : Len(t) = n - 1}, x \in S}

RECURSIVE SumLen(_, _)
SumLen(f, S) ==
    IF S = {} THEN 0
    ELSE LET x == CHOOSE y \in S : TRUE IN Len(f[x]) + SumLen(f, S \ {x})

TotalLines(dataset) == SumLen(dataset, DOMAIN dataset)

\* Every dataset directory within the bound: each file a sequence of lines.
Datasets ==
    {d \in [DatasetFiles -> SeqsUpTo(Lines, MaxLines)] : TotalLines(d) <= MaxLines}

EmptyDataset == [f \in DatasetFiles |-> <<>>]

\* class Example
Example(payload, source_file) == [payload |-> payload, source_file |-> source_file]

\* Example.subject; the dataset's subjects are strings, on which str() is the
\* identity.
subject(example) == example.payload.subject

\* Example.to_json: a copy of the payload with source_file set.
to_json(example) ==
    [k \in DOMAIN example.payload \cup {"source_file"} |->
        IF k = "source_file" THEN example.source_file ELSE example.payload[k]]

\* The (file, line) pairs in the order iter_examples reads them:
\* sorted(dataset_root.glob("*.jsonl")), then line order within a file.
RECURSIVE ReadOrder(_, _)
ReadOrder(dataset, paths) ==
    IF paths = <<>> THEN <<>>
    ELSE [i \in 1..Len(dataset[paths[1]]) |->
             [source_file |-> paths[1], line |-> dataset[paths[1]][i]]]
         \o ReadOrder(dataset, Tail(paths))

\* allowed_subjects of iter_examples: None when subject_filter is None or
\* empty (Python truthiness), else the set of lowercased names.
allowed_subjects(subject_filter) ==
    IF subject_filter = None \/ subject_filter[1] = <<>> THEN None
    ELSE Some({lower(s) : s \in Range(subject_filter[1])})

\* The loop body of iter_examples over the remaining lines; `acc` holds what
\* was yielded so far. The result carries the exception that ended the scan.
RECURSIVE ScanLines(_, _, _)
ScanLines(todo, allowed, acc) ==
    IF todo = <<>> THEN [error |-> "", examples |-> acc]
    ELSE LET line == todo[1].line IN
         IF line.kind = "blank" THEN ScanLines(Tail(todo), allowed, acc)
         ELSE IF line.kind = "malformed" THEN [error |-> "JSONDecodeError", examples |-> acc]
         ELSE IF "subject" \notin DOMAIN line.payload THEN [error |-> "KeyError", examples |-> acc]
         ELSE IF allowed # None /\ lower(line.payload.subject) \notin allowed[1]
              THEN ScanLines(Tail(todo), allowed, acc)
         ELSE ScanLines(Tail(todo), allowed,
                        Append(acc, Example(line.payload, todo[1].source_file)))

\* iter_examples, consumed to the end.
iter_examples(dataset, subject_filter) ==
    ScanLines(ReadOrder(dataset, sorted(Iterate(DOMAIN dataset))),
              allowed_subjects(subject_filter), <<>>)

\* discover_subjects scanning with the default subject filter of
\* run_experiments instead of no filter.
discover_subjects_DefaultFilter(dataset) ==
    LET scan == iter_examples(dataset, Some(DEFAULT_SUBJECTS)) IN
    [error |-> scan.error,
     value |-> IF scan.error = "" THEN sorted(Iterate({subject(e) : e \in Range(scan.examples)}))
               ELSE <<>>]

\* discover_subjects: the sorted distinct subjects of the unfiltered scan.
discover_subjects(dataset) ==
    LET scan == iter_examples(dataset, None) IN
    [error |-> scan.error,
     value |-> IF scan.error = "" THEN sorted(Iterate({subject(e) : e \in Range(scan.examples)}))
               ELSE <<>>]

\* "outputs/", ".jsonl", "all-subjects", "-"
OutputsDir == <<111, 117, 116, 112, 117, 116, 115, 47>>
JsonlSuffix == <<46, 106, 115, 111, 110, 108>>
AllSubjectsStem == <<97, 108, 108, 45, 115, 117, 98, 106, 101, 99, 116, 115>>
Dash == <<45>>

\* stem with the names joined in the order given, not sorted.
stem_Unsorted(subjects) ==
    IF subjects = None THEN AllSubjectsStem
    ELSE IF Len(subjects[1]) = 1 THEN lower(subjects[1][1])
    ELSE join(Dash, [i \in 1..Len(subjects[1]) |-> lower(subjects[1][i])])

\* stem of _build_output_path
stem(subjects) ==
    IF subjects = None THEN AllSubjectsStem
    ELSE IF Len(subjects[1]) = 1 THEN lower(subjects[1][1])
    ELSE join(Dash, sorted([i \in 1..Len(subjects[1]) |-> lower(subjects[1][i])]))

\* _build_output_path; an absolute explicit path resolves to itself.
_build_output_path(subjects, output_path) ==
    IF output_path # None THEN output_path[1]
    ELSE OutputsDir \o stem(subjects) \o JsonlSuffix

\* Counter counting each distinct subject once.
Counter_Distinct(examples) ==
    [s \in {subject(e) : e \in Range(examples)} |-> 1]

\* Counter(example.subject for example in examples)
Counter(examples) ==
    [s \in {subject(e) : e \in Range(examples)} |->
        Cardinality({i \in 1..Len(examples) : subject(examples[i]) = s})]

\* class RunSummary, as built at the end of run_experiments.
RunSummary(examples, counts, output_file) ==
    [total_examples |-> Len(examples),
     subjects |-> sorted(Iterate(DOMAIN counts)),
     subject_counts |-> counts,
     output_path |-> output_file]

\* ------------------------------------------------------------------- state
VARIABLES
    dataset,       \* the dataset directory: file path -> its lines
    fs,            \* the output files on disk: path -> the records written
    pc,            \* "idle", "writing", "invoking", "done", "failed"
    args,          \* the keyword arguments of the current run_experiments call
    output_file,   \* run_experiments' output_file
    examples,      \* run_experiments' examples list
    written,       \* how many of `examples` the write loop has dumped
    runner_calls,  \* the examples the runner was invoked with, in call order
    summary,       \* the RunSummary returned, None until the run returns
    error,         \* the exception that reached the caller, "" if none
    discovered,    \* what the last discover_subjects call returned, else None
    before,        \* history: the output files as they were when the call began
    previous       \* history: the last completed run on this dataset, else None

vars == <<dataset, fs, pc, args, output_file, examples, written, runner_calls,
          summary, error, discovered, before, previous>>

RequestNames == {BioMedicine, Math}
SubjectSeqs == SeqsUpTo(RequestNames, MaxSubjects)

\* The keyword arguments a caller can pass. subjects_given = FALSE is a call
\* that omits `subjects`; max_examples_given = TRUE is a call that passes the
\* keyword max_examples (streamlit_app.py passes it on every call, as
\* _TEST_MODE_LIMIT in test mode and as None otherwise).
CallArgs ==
    {[subjects_given |-> FALSE, subjects |-> None, output_path |-> o, runner |-> r,
      max_examples_given |-> m[1], max_examples |-> m[2]] :
        o \in {None, Some(ExplicitOut)}, r \in BOOLEAN,
        m \in {<<FALSE, None>>, <<TRUE, None>>, <<TRUE, Some(_TEST_MODE_LIMIT)>>}}
    \cup
    {[subjects_given |-> TRUE, subjects |-> s, output_path |-> o, runner |-> r,
      max_examples_given |-> m[1], max_examples |-> m[2]] :
        s \in {None} \cup {Some(q) : q \in SubjectSeqs},
        o \in {None, Some(ExplicitOut)}, r \in BOOLEAN,
        m \in {<<FALSE, None>>, <<TRUE, None>>, <<TRUE, Some(_TEST_MODE_LIMIT)>>}}

NoArgs ==
    [subjects_given |-> FALSE, subjects |-> None, output_path |-> None,
     runner |-> FALSE, max_examples_given |-> FALSE, max_examples |-> None]

\* subjects_param with None (all subjects) as the default of `subjects`.
subjects_param_NoDefault(a) == a.subjects

\* The value bound to the parameter `subjects`: the default when omitted.
subjects_param(a) == IF a.subjects_given THEN a.subjects ELSE Some(DEFAULT_SUBJECTS)

\* truncate as open(path, "a"): existing content is kept.
truncate_Append(files, path) ==
    [p \in DOMAIN files \cup {path} |-> IF p \in DOMAIN files THEN files[p] ELSE <<>>]

\* open(path, "w"): the file exists and is empty.
truncate(files, path) ==
    [p \in DOMAIN files \cup {path} |-> IF p = path THEN <<>> ELSE files[p]]

\* json.dump(record, handle); handle.write("\n")
write_record(files, path, record) ==
    [files EXCEPT ![path] = Append(@, record)]

Idle ==
    /\ pc = "idle"
    /\ args = NoArgs
    /\ output_file = None
    /\ examples = <<>>
    /\ written = 0
    /\ runner_calls = <<>>
    /\ summary = None
    /\ error = ""

\* A fresh process: any dataset directory, no output file yet.
Init ==
    /\ dataset \in Datasets
    /\ fs = <<>>
    /\ discovered = None
    /\ before = <<>>
    /\ previous = None
    /\ Idle

\* A call that passes the keyword max_examples: run_experiments has no such
\* parameter, so Python raises TypeError before the body runs.
RejectKeyword ==
    /\ error' = "TypeError"
    /\ pc' = "failed"
    /\ output_file' = None
    /\ examples' = <<>>
    /\ fs' = fs

\* ScanThenOpen with the output file opened before the dataset is scanned.
ScanThenOpen_OpenFirst(a) ==
    LET selected_subjects == subjects_param(a)
        path == _build_output_path(selected_subjects, a.output_path)
        scan == iter_examples(dataset, selected_subjects)
    IN /\ output_file' = Some(path)
       /\ fs' = truncate(fs, path)
       /\ IF scan.error # ""
          THEN /\ error' = scan.error
               /\ pc' = "failed"
               /\ examples' = <<>>
          ELSE /\ error' = ""
               /\ pc' = "writing"
               /\ examples' = scan.examples

\* The body of run_experiments up to and including the open() of the output
\* file: _build_output_path, then the full scan into `examples`, then open.
ScanThenOpen(a) ==
    LET selected_subjects == subjects_param(a)
        path == _build_output_path(selected_subjects, a.output_path)
        scan == iter_examples(dataset, selected_subjects)
    IN /\ output_file' = Some(path)
       /\ IF scan.error # ""
          THEN /\ error' = scan.error
               /\ pc' = "failed"
               /\ examples' = <<>>
               /\ fs' = fs
          ELSE /\ error' = ""
               /\ pc' = "writing"
               /\ examples' = scan.examples
               /\ fs' = truncate(fs, path)

\* run_experiments(**a), up to the write loop.
Call(a) ==
    /\ args' = a
    /\ before' = fs
    /\ previous' = IF pc = "done"
                   THEN Some([args |-> args, output_file |-> output_file[1],
                              content |-> fs[output_file[1]]])
                   ELSE previous
    /\ written' = 0
    /\ runner_calls' = <<>>
    /\ summary' = None
    /\ IF a.max_examples_given THEN RejectKeyword ELSE ScanThenOpen(a)
    /\ UNCHANGED <<dataset, discovered>>

\* The first call of a process.
Start ==
    /\ pc = "idle"
    /\ \E a \in CallArgs : Call(a)

\* WriteRecord with the runner call left out of the loop body.
WriteRecord_SkipRunner ==
    /\ pc = "writing"
    /\ written < Len(examples)
    /\ fs' = write_record(fs, output_file[1], to_json(examples[written + 1]))
    /\ written' = written + 1
    /\ pc' = "writing"
    /\ UNCHANGED <<dataset, args, output_file, examples, runner_calls, summary, error,
                   discovered, before, previous>>

\* One iteration of the write loop up to the runner call: dump one record.
WriteRecord ==
    /\ pc = "writing"
    /\ written < Len(examples)
    /\ fs' = write_record(fs, output_file[1], to_json(examples[written + 1]))
    /\ written' = written + 1
    /\ pc' = IF args.runner THEN "invoking" ELSE "writing"
    /\ UNCHANGED <<dataset, args, output_file, examples, runner_calls, summary, error,
                   discovered, before, previous>>

\* runner(example) returns.
RunnerReturns ==
    /\ pc = "invoking"
    /\ runner_calls' = Append(runner_calls, examples[written])
    /\ pc' = "writing"
    /\ UNCHANGED <<dataset, fs, args, output_file, examples, written, summary, error,
                   discovered, before, previous>>

\* RunnerRaises with the exception caught and noted, and the loop going on.
RunnerRaises_Caught ==
    /\ pc = "invoking"
    /\ runner_calls' = Append(runner_calls, examples[written])
    /\ pc' = "writing"
    /\ error' = "RunnerError"
    /\ UNCHANGED <<dataset, fs, args, output_file, examples, written, summary, discovered,
                   before, previous>>

\* runner(example) raises: nothing catches it, the with block closes the file.
RunnerRaises ==
    /\ pc = "invoking"
    /\ runner_calls' = Append(runner_calls, examples[written])
    /\ pc' = "failed"
    /\ error' = "RunnerError"
    /\ UNCHANGED <<dataset, fs, args, output_file, examples, written, summary, discovered,
                   before, previous>>

\* The loop is over: the file is closed and the summary returned.
Return ==
    /\ pc = "writing"
    /\ written = Len(examples)
    /\ summary' = Some(RunSummary(examples, Counter(examples), output_file[1]))
    /\ pc' = "done"
    /\ UNCHANGED <<dataset, fs, args, output_file, examples, written, runner_calls, error,
                   discovered, before, previous>>

\* A call of discover_subjects on the dataset directory.
DiscoverSubjects ==
    /\ pc \in {"idle", "done", "failed"}
    /\ discovered = None
    /\ discovered' = Some(discover_subjects(dataset))
    /\ UNCHANGED <<dataset, fs, pc, args, output_file, examples, written, runner_calls,
                   summary, error, before, previous>>

Next ==
    \/ Start
    \/ WriteRecord
    \/ RunnerReturns
    \/ RunnerRaises
    \/ Return
    \/ DiscoverSubjects

Spec == Init /\ [][Next]_vars

\* --------------------------------------------------------- repeated runs
\* A session in which run_experiments is called again and again (the
\* front-end's button, or the script run repeatedly) while the dataset
\* directory changes on disk between the runs.
\* The calls of the session: to one explicit output path with the default
\* subject or with all subjects, or (without a runner) to the derived path
\* of the default subject.
SessionArgs ==
    {a \in CallArgs :
        /\ ~a.max_examples_given
        /\ \/ a.output_path = Some(ExplicitOut) /\ (~a.subjects_given \/ a.subjects = None)
           \/ a.output_path = None /\ ~a.subjects_given /\ ~a.runner}

InitSession ==
    /\ dataset = EmptyDataset
    /\ fs = <<>>
    /\ discovered = None
    /\ before = <<>>
    /\ previous = None
    /\ Idle

\* A call of run_experiments once the previous one has ended.
SessionCall ==
    /\ pc \in {"idle", "done", "failed"}
    /\ \E a \in SessionArgs : Call(a)

\* Between two runs a line is appended to a dataset file; the results of the
\* runs on the old dataset are no longer held by the caller.
EditDataset ==
    /\ pc \in {"idle", "done", "failed"}
    /\ TotalLines(dataset) < MaxLines
    /\ \E f \in DatasetFiles, l \in Lines :
          dataset' = [dataset EXCEPT ![f] = Append(@, l)]
    /\ pc' = "idle"
    /\ args' = NoArgs
    /\ output_file' = None
    /\ examples' = <<>>
    /\ written' = 0
    /\ runner_calls' = <<>>
    /\ summary' = None
    /\ error' = ""
    /\ before' = fs
    /\ previous' = None
    /\ UNCHANGED <<fs, discovered>>

NextSession ==
    \/ SessionCall
    \/ EditDataset
    \/ WriteRecord
    \/ RunnerReturns
    \/ RunnerRaises
    \/ Return

SpecSession == InitSession /\ [][NextSession]_vars

\* ------------------------------------------------------------ properties
\* The records a sequence of examples serialises to.
RecordsOf(exs) == [i \in 1..Len(exs) |-> to_json(exs[i])]

\* The lines of a dataset directory, and what they hold, read off the files
\* directly (not through iter_examples).
AllLines(d) == UNION {Range(d[f]) : f \in DOMAIN d}
JsonLines(d) == {l \in AllLines(d) : l.kind = "json"}
DatasetBad(d) ==
    \/ \E l \in AllLines(d) : l.kind = "malformed"
    \/ \E l \in JsonLines(d) : "subject" \notin DOMAIN l.payload
DatasetSubjects(d) ==
    {l.payload.subject : l \in {x \in JsonLines(d) : "subject" \in DOMAIN x.payload}}

\* The output file of the current run.
OutputRecords == fs[output_file[1]]

\* C1: when `subjects` is a sequence (of any length, not None), every record
\* in the output file of a completed run has a subject that equals one of the
\* requested names up to letter case.
C1_OnlyRequestedSubjects ==
    (pc = "done" /\ args.subjects_given /\ args.subjects # None) =>
        \A i \in 1..Len(OutputRecords) :
            \E n \in Range(args.subjects[1]) : lower(OutputRecords[i].subject) = lower(n)

\* C1, for the sequences that name at least one subject: the same statement
\* with the empty sequence left out.
C1_NonEmptyRequest ==
    (pc = "done" /\ args.subjects_given /\ args.subjects # None
        /\ args.subjects[1] # <<>>) =>
        \A i \in 1..Len(OutputRecords) :
            \E n \in Range(args.subjects[1]) : lower(OutputRecords[i].subject) = lower(n)

\* C2: a call that passes a maximum example count N on a well-formed dataset,
\* with a runner that does not raise, completes with total_examples <= N, at
\* most N records written, and the runner invoked total_examples times.
C2_MaxExamplesHonoured ==
    (pc \in {"done", "failed"} /\ args.max_examples_given /\ args.max_examples # None
        /\ ~DatasetBad(dataset) /\ error # "RunnerError") =>
        /\ pc = "done"
        /\ summary[1].total_examples <= args.max_examples[1]
        /\ Len(OutputRecords) <= args.max_examples[1]
        /\ args.runner => Len(runner_calls) = summary[1].total_examples

\* C3: with a runner supplied, the runner is called with exactly the written
\* examples, in the order of the records in the file; the i-th call comes
\* after the i-th record and before the (i+1)-th, so records written minus
\* calls started is 0 or 1; a completed run has called it once per example.
C3_RunnerFollowsWrites ==
    (pc \in {"writing", "invoking", "done", "failed"} /\ args.runner /\ output_file # None
        /\ error \in {"", "RunnerError"}) =>
        /\ Len(OutputRecords) = written
        /\ written - Len(runner_calls) \in {0, 1}
        /\ \A i \in 1..Len(runner_calls) : to_json(runner_calls[i]) = OutputRecords[i]
        /\ runner_calls = SubSeq(examples, 1, Len(runner_calls))
        /\ pc = "invoking" <=> written - Len(runner_calls) = 1
        /\ pc = "done" => Len(runner_calls) = Len(examples) /\ written = Len(examples)

\* C3 witness: a completed run whose runner was called for two records.
C3_Witness ==
    /\ pc = "done"
    /\ args.runner
    /\ Len(runner_calls) >= 2
    /\ Len(OutputRecords) = Len(runner_calls)

\* C4: once the runner has raised on the k-th written example the run has
\* failed: no summary, the runner was called k times and is not called again,
\* no further record is written, and the file holds the first k records.
C4_RunnerFailureAborts ==
    error = "RunnerError" =>
        /\ pc = "failed"
        /\ summary = None
        /\ written >= 1
        /\ Len(runner_calls) = written
        /\ OutputRecords = RecordsOf(SubSeq(examples, 1, written))
        /\ ~ENABLED (WriteRecord \/ RunnerReturns \/ RunnerRaises \/ Return)

\* C4 witness: the runner raised on the first of two matching examples.
C4_Witness ==
    /\ pc = "failed"
    /\ error = "RunnerError"
    /\ written = 1
    /\ Len(examples) = 2
    /\ Len(OutputRecords) = 1

\* C5 as stated: whenever the dataset holds a BioMedicine example, a completed
\* run that omits `subjects` reports subjects = ("BioMedicine",), a total
\* equal to subject_counts["BioMedicine"], and writes BioMedicine records only.
C5_DefaultExactlyBioMedicine ==
    (pc = "done" /\ ~args.subjects_given /\ BioMedicine \in DatasetSubjects(dataset)) =>
        /\ summary[1].subjects = <<BioMedicine>>
        /\ summary[1].total_examples = summary[1].subject_counts[BioMedicine]
        /\ \A i \in 1..Len(OutputRecords) : OutputRecords[i].subject = BioMedicine

\* No subject of the dataset differs from "BioMedicine" in letter case only.
NoCaseVariant(d) ==
    \A s \in DatasetSubjects(d) : lower(s) = lower(BioMedicine) => s = BioMedicine

\* C5, amended: the same, for the datasets that hold a BioMedicine example
\* and no subject that differs from "BioMedicine" only in letter case.
C5_DefaultSubject ==
    (pc = "done" /\ ~args.subjects_given /\ BioMedicine \in DatasetSubjects(dataset)
        /\ NoCaseVariant(dataset)) =>
        /\ summary[1].subjects = <<BioMedicine>>
        /\ summary[1].total_examples = summary[1].subject_counts[BioMedicine]
        /\ summary[1].total_examples >= 1
        /\ \A i \in 1..Len(OutputRecords) : OutputRecords[i].subject = BioMedicine

\* C5 witness: a default run on a dataset with a BioMedicine and a Math
\* example has written the BioMedicine record alone.
C5_Witness ==
    /\ pc = "done"
    /\ ~args.subjects_given
    /\ DatasetSubjects(dataset) = {BioMedicine, Math}
    /\ summary[1].subjects = <<BioMedicine>>
    /\ Len(OutputRecords) = 1

RECURSIVE SumOver(_, _)
SumOver(f, S) ==
    IF S = {} THEN 0
    ELSE LET x == CHOOSE y \in S : TRUE IN f[x] + SumOver(f, S \ {x})

\* C6: the summary of a completed run has sum(subject_counts.values()) =
\* total_examples = the number of records in the output file, and
\* subject_counts[s] is the number of written records with subject s.
C6_SummaryCounts ==
    pc = "done" =>
        LET counts == summary[1].subject_counts IN
        /\ SumOver(counts, DOMAIN counts) = summary[1].total_examples
        /\ summary[1].total_examples = Len(OutputRecords)
        /\ \A i \in 1..Len(OutputRecords) : OutputRecords[i].subject \in DOMAIN counts
        /\ \A s \in DOMAIN counts :
              counts[s] = Cardinality({i \in 1..Len(OutputRecords) : OutputRecords[i].subject = s})

\* C6 witness: a completed run that wrote two records of one subject.
C6_Witness ==
    /\ pc = "done"
    /\ summary[1].total_examples = 2
    /\ \E s \in DOMAIN summary[1].subject_counts : summary[1].subject_counts[s] = 2
    /\ Len(OutputRecords) = 2

\* How often x occurs in the sequence s.
Occurrences(x, s) == Cardinality({i \in 1..Len(s) : s[i] = x})

\* t holds the elements of s, each as often as s does, in ascending order.
IsSortedPermutation(t, s) ==
    /\ Len(t) = Len(s)
    /\ \A x \in Range(s) \cup Range(t) : Occurrences(x, t) = Occurrences(x, s)
    /\ \A i \in 1..(Len(t) - 1) : ~StrLess(t[i + 1], t[i])

LowerAll(s) == [i \in 1..Len(s) |-> lower(s[i])]

\* C7: with no explicit output path the path is outputs/<stem>.jsonl, the
\* stem being "all-subjects" for None, the lowercased name for one name, and
\* otherwise the lowercased names in ascending order joined by "-"; any call
\* that requests the same names in another order resolves to the same path.
C7_OutputPath ==
    (pc # "idle" /\ ~args.max_examples_given /\ args.output_path = None) =>
        LET req == subjects_param(args)
            path == output_file[1]
        IN /\ req = None => path = OutputsDir \o AllSubjectsStem \o JsonlSuffix
           /\ (req # None /\ Len(req[1]) = 1) =>
                 path = OutputsDir \o lower(req[1][1]) \o JsonlSuffix
           /\ (req # None /\ Len(req[1]) # 1) =>
                 \E t \in SeqsUpTo(Range(LowerAll(req[1])), Len(req[1])) :
                    /\ IsSortedPermutation(t, LowerAll(req[1]))
                    /\ path = OutputsDir \o join(Dash, t) \o JsonlSuffix
           /\ \A q \in SubjectSeqs :
                 (/\ req # None
                  /\ Len(q) = Len(req[1])
                  /\ \A x \in Range(req[1]) : Occurrences(x, q) = Occurrences(x, req[1]))
                 => _build_output_path(Some(q), None) = path

\* "outputs/biomedicine-math.jsonl"
BiomedicineMathPath ==
    <<111, 117, 116, 112, 117, 116, 115, 47,
      98, 105, 111, 109, 101, 100, 105, 99, 105, 110, 101, 45, 109, 97, 116, 104,
      46, 106, 115, 111, 110, 108>>

\* C7 witness: a call with subjects ("Math", "BioMedicine") and no explicit
\* path has resolved to outputs/biomedicine-math.jsonl.
C7_Witness ==
    /\ pc # "idle"
    /\ args.output_path = None
    /\ args.subjects_given
    /\ args.subjects = Some(<<Math, BioMedicine>>)
    /\ output_file = Some(BiomedicineMathPath)

\* C8: after a completed run its file holds exactly the records of that run,
\* whatever earlier runs left at the path; and a run with the same arguments
\* as the last completed run on the unchanged dataset resolves to the same
\* path and leaves the same content.
C8_LastRunReplacesFile ==
    pc = "done" =>
        /\ OutputRecords =
              RecordsOf(iter_examples(dataset, subjects_param(args)).examples)
        /\ (previous # None /\ previous[1].args = args) =>
              /\ output_file[1] = previous[1].output_file
              /\ OutputRecords = previous[1].content

\* C8 witness: a run repeated with the arguments of the last completed run
\* has completed, on a file that held something else when it began.
C8_Witness ==
    /\ pc = "done"
    /\ previous # None
    /\ previous[1].args = args
    /\ OutputRecords # <<>>
    /\ output_file[1] \in DOMAIN before
    /\ before[output_file[1]] # OutputRecords

\* C9: discover_subjects returns the distinct subjects of the dataset in
\* ascending order, and they include the subjects of the summary of any run
\* on the same dataset directory.
C9_DiscoverySuperset ==
    /\ (discovered # None /\ discovered[1].error = "") =>
          /\ Range(discovered[1].value) = DatasetSubjects(dataset)
          /\ \A i \in 1..(Len(discovered[1].value) - 1) :
                StrLess(discovered[1].value[i], discovered[1].value[i + 1])
    /\ (pc = "done" /\ discovered # None) =>
          /\ discovered[1].error = ""
          /\ Range(summary[1].subjects) \subseteq Range(discovered[1].value)

\* C9 witness: a filtered run reported some, not all, of the subjects that
\* discover_subjects returned.
C9_Witness ==
    /\ pc = "done"
    /\ discovered # None
    /\ summary[1].subjects # <<>>
    /\ Range(summary[1].subjects) # Range(discovered[1].value)
    /\ Len(discovered[1].value) = 2

OldSource == <<111, 108, 100, 46, 106, 115, 111, 110, 108>>
CarriedPayload == [subject |-> Math, source_file |-> OldSource]
RecordLines == Lines \cup {JsonLine(CarriedPayload)}

\* The dataset directories whose records may carry a source_file key.
RecordDatasets ==
    {d \in [DatasetFiles -> SeqsUpTo(RecordLines, MaxLines)] : TotalLines(d) <= MaxLines}

InitRecords ==
    /\ dataset \in RecordDatasets
    /\ fs = <<>>
    /\ discovered = None
    /\ before = <<>>
    /\ previous = None
    /\ Idle

SpecRecords == InitRecords /\ [][Next]_vars

\* A payload matches the requested subjects `req` (None: no restriction) when
\* its subject equals one of the requested names up to letter case.
Matches(payload, req) ==
    req = None \/ \E n \in Range(req[1]) : lower(payload.subject) = lower(n)

\* The dataset files in ascending path order.
FilesInPathOrder(d) ==
    CHOOSE t \in SeqsUpTo(DOMAIN d, Cardinality(DOMAIN d)) :
        /\ Range(t) = DOMAIN d
        /\ \A i \in 1..(Len(t) - 1) : StrLess(t[i], t[i + 1])

\* The matching records of one file, in line order, each with its file.
MatchingOf(d, f, req) ==
    LET IsMatch(l) == l.kind = "json" /\ Matches(l.payload, req)
        kept == SelectSeq(d[f], IsMatch)
    IN [i \in 1..Len(kept) |-> [payload |-> kept[i].payload, source_file |-> f]]

\* The matching records of the corpus, file after file.
RECURSIVE MatchingIn(_, _, _)
MatchingIn(d, files, req) ==
    IF files = <<>> THEN <<>>
    ELSE MatchingOf(d, files[1], req) \o MatchingIn(d, Tail(files), req)

\* rec is the payload unchanged, plus a source_file field naming the file.
IsRecordOf(rec, payload, f) ==
    /\ DOMAIN rec = DOMAIN payload \cup {"source_file"}
    /\ \A k \in DOMAIN payload : rec[k] = payload[k]
    /\ rec["source_file"] = f

\* rec is the payload with source_file set to the file, every other key kept.
IsRecordWithSource(rec, payload, f) ==
    /\ DOMAIN rec = DOMAIN payload \cup {"source_file"}
    /\ \A k \in DOMAIN payload \ {"source_file"} : rec[k] = payload[k]
    /\ rec["source_file"] = f

\* C11: the output file of a completed run is exactly the corpus examples
\* that match the requested subjects, none missing and none duplicated, in
\* path order of the files and line order within a file, blank lines skipped;
\* each record is the source payload unchanged plus a source_file field
\* naming the file it was read from.
C11_OutputIsFilteredCorpus ==
    pc = "done" =>
        LET want == MatchingIn(dataset, FilesInPathOrder(dataset), subjects_param(args)) IN
        /\ Len(OutputRecords) = Len(want)
        /\ \A i \in 1..Len(want) :
              IsRecordOf(OutputRecords[i], want[i].payload, want[i].source_file)

\* C11, for the requests other than the empty sequence.
C11_ExceptEmptyRequest ==
    (pc = "done" /\ subjects_param(args) # Some(<<>>)) =>
        LET want == MatchingIn(dataset, FilesInPathOrder(dataset), subjects_param(args)) IN
        /\ Len(OutputRecords) = Len(want)
        /\ \A i \in 1..Len(want) :
              IsRecordOf(OutputRecords[i], want[i].payload, want[i].source_file)

\* C11, for the requests other than the empty sequence, with a source_file
\* key of the payload replaced instead of kept.
C11_SourceFileReplaced ==
    (pc = "done" /\ subjects_param(args) # Some(<<>>)) =>
        LET want == MatchingIn(dataset, FilesInPathOrder(dataset), subjects_param(args)) IN
        /\ Len(OutputRecords) = Len(want)
        /\ \A i \in 1..Len(want) :
              IsRecordWithSource(OutputRecords[i], want[i].payload, want[i].source_file)

====
